---- MODULE Spec2Model ----
(***************************************************************************)
(* Model of the caesar-cipher crate: the two alphabets (alphabets.rs) and  *)
(* Shift / CaesarEngine / ClearText / CipherText (lib.rs).                 *)
(*                                                                         *)
(* A char is a one-character string, a String or a slice of chars is a     *)
(* sequence of chars.  Slice indexes are zero-based as in the source; the  *)
(* sequence element of zero-based index i is s[i + 1].  An Option is a     *)
(* record with a "some" field, a call that can panic returns a record with *)
(* a "panic" field naming the panic site ("none" when the call returned).  *)
(***************************************************************************)
EXTENDS Integers, Sequences, FiniteSets

\* ------------------------------------------------------------------ bounds
\* Raw texts handed to try_new: every string of at most MaxLen chars of
\* InputChars, and the strings of the crate's tests and doc tests.
MaxLen == 2
\* Shifts handed to new: 0..MaxShift, the shifts of the tests, and the
\* shifts around the alphabet's length n: n-1 .. n+MaxOver.
MaxShift == 3
MaxOver == 1
\* Number of engines one behaviour builds, one after the other.
MaxEngines == 2

\* ------------------------------------------------------------- alphabets.rs
CAESAR_ALPHABET ==
    <<"a", "b", "c", "d", "e", "f", "g", "h", "i", "j", "k", "l", "m", "n", "o", "p", "q",
      "r", "s", "t", "u", "v", "w", "x", "y", "z">>

INCOMPLETE_ASCII ==
    <<"a", "b", "c", "d", "e", "f", "g", "h", "i", "j", "k", "l", "m", "n", "o", "p", "q",
      "r", "s", "t", "u", "v", "w", "x", "y", "z", "A", "B", "C", "D", "E", "F", "G", "H",
      "I", "J", "K", "L", "M", "N", "O", "P", "Q", "R", "S", "T", "U", "V", "W", "X", "Y",
      "Z", ",", " ", "?", "!", "'", "(", ")", ".">>

\* The types implementing the Alphabet trait (the values of a type
\* parameter A: Alphabet).
Alphabet == {"AsciiLowerCaseAlphabet", "IncompleteAscii"}

\* A::letters()
letters(A) ==
    IF A = "AsciiLowerCaseAlphabet" THEN CAESAR_ALPHABET ELSE INCOMPLETE_ASCII

\* ------------------------------------------------------ std, as lib.rs uses it
None == [some |-> FALSE]

Some(v) == [some |-> TRUE, value |-> v]

\* slice.contains(&c)
contains(s, c) == \E i \in 1..Len(s) : s[i] = c

\* slice.iter().position(|l| l == &c): zero-based index of the first
\* element equal to c.
position(s, c) ==
    IF \E i \in 1..Len(s) : s[i] = c
    THEN Some((CHOOSE i \in 1..Len(s) :
                  /\ s[i] = c
                  /\ \A j \in 1..(i - 1) : s[j] # c) - 1)
    ELSE None

\* Variant of position_not_contained that searches from the end (rposition).
position_not_contained_last(chars, alphabet_letters) ==
    IF \E i \in 1..Len(chars) : ~contains(alphabet_letters, chars[i])
    THEN Some((CHOOSE i \in 1..Len(chars) :
                  /\ ~contains(alphabet_letters, chars[i])
                  /\ \A j \in (i + 1)..Len(chars) : contains(alphabet_letters, chars[j])) - 1)
    ELSE None

\* message.chars().position(|ref c| !alphabet_letters.contains(c))
position_not_contained(chars, alphabet_letters) ==
    IF \E i \in 1..Len(chars) : ~contains(alphabet_letters, chars[i])
    THEN Some((CHOOSE i \in 1..Len(chars) :
                  /\ ~contains(alphabet_letters, chars[i])
                  /\ \A j \in 1..(i - 1) : contains(alphabet_letters, chars[j])) - 1)
    ELSE None

\* chars().nth(p)
nth(chars, p) == IF p < Len(chars) THEN Some(chars[p + 1]) ELSE None

\* Variant of rotate_left that rotates one element too far.
rotate_left_one_more(v, mid) ==
    IF mid > Len(v)
    THEN [panic |-> "rotate_left"]
    ELSE LET k == IF mid = Len(v) THEN 1 ELSE mid + 1
         IN  [panic |-> "none",
              value |-> SubSeq(v, k + 1, Len(v)) \o SubSeq(v, 1, k)]

\* Variant of rotate_left that rotates to the right (rotate_right).
rotate_right(v, mid) ==
    IF mid > Len(v)
    THEN [panic |-> "rotate_left"]
    ELSE [panic |-> "none",
          value |-> SubSeq(v, Len(v) - mid + 1, Len(v)) \o SubSeq(v, 1, Len(v) - mid)]

\* Variant of rotate_left that drops the first mid elements and does not
\* append them.
rotate_left_truncating(v, mid) ==
    IF mid > Len(v)
    THEN [panic |-> "rotate_left"]
    ELSE [panic |-> "none", value |-> SubSeq(v, mid + 1, Len(v))]

\* slice.rotate_left(mid): panics when mid > len; otherwise the first mid
\* elements move to the end (mid = len is a no-op).
rotate_left(v, mid) ==
    IF mid > Len(v)
    THEN [panic |-> "rotate_left"]
    ELSE [panic |-> "none",
          value |-> SubSeq(v, mid + 1, Len(v)) \o SubSeq(v, 1, mid)]

\* ------------------------------------------------------------------- lib.rs
\* CaesarEngine::<A>::new(Shift(shift))
new(A, shift) ==
    LET rotated == rotate_left(letters(A), shift)
    IN  IF rotated.panic # "none"
        THEN [panic |-> rotated.panic]
        ELSE [panic |-> "none",
              value |-> [marker |-> A, shifted_alphabet |-> rotated.value]]

\* Variant of try_new that wraps the message without validating it.
try_new_unchecked(A, message) ==
    [panic |-> "none", ok |-> TRUE, value |-> [marker |-> A, message |-> message]]

\* ClearText::<A>::try_new(message)
try_new(A, message) ==
    LET alphabet_letters == letters(A)
        pos == position_not_contained(message, alphabet_letters)
    IN  IF pos.some
        THEN LET c == nth(message, pos.value)
             IN  IF c.some
                 THEN [panic |-> "none", ok |-> FALSE, err |-> c.value]
                 ELSE [panic |-> "unwrap"]
        ELSE [panic |-> "none", ok |-> TRUE,
              value |-> [marker |-> A, message |-> message]]

\* The for loop of encrypt and of decrypt: each letter of chars, in order,
\* is looked up in "from" (position(..).unwrap()) and the letter of "to" of
\* the same index is pushed on the output.  The first letter whose lookup
\* or indexing fails panics and ends the loop.
substitute(chars, from, to) ==
    LET letter_index(i) == position(from, chars[i])
        failing == {i \in 1..Len(chars) :
                       \/ ~letter_index(i).some
                       \/ letter_index(i).value >= Len(to)}
    IN  IF failing = {}
        THEN [panic |-> "none",
              value |-> [i \in 1..Len(chars) |-> to[letter_index(i).value + 1]]]
        ELSE LET first == CHOOSE i \in failing : \A j \in failing : i <= j
             IN  IF ~letter_index(first).some
                 THEN [panic |-> "unwrap"]
                 ELSE [panic |-> "index"]

\* Variant of encrypt that looks the letters up in the shifted alphabet and
\* emits the letters of the original one.
encrypt_swapped(self, clear_message) ==
    LET alphabet == letters(self.marker)
        encrypted_message ==
            substitute(clear_message.message, self.shifted_alphabet, alphabet)
    IN  IF encrypted_message.panic # "none"
        THEN [panic |-> encrypted_message.panic]
        ELSE [panic |-> "none",
              value |-> [marker |-> self.marker, cipher |-> encrypted_message.value]]

\* CaesarEngine::<A>::encrypt(&self, clear_message)
encrypt(self, clear_message) ==
    LET alphabet == letters(self.marker)
        encrypted_message ==
            substitute(clear_message.message, alphabet, self.shifted_alphabet)
    IN  IF encrypted_message.panic # "none"
        THEN [panic |-> encrypted_message.panic]
        ELSE [panic |-> "none",
              value |-> [marker |-> self.marker, cipher |-> encrypted_message.value]]

\* CaesarEngine::<A>::decrypt(&self, cipher_message)
decrypt(self, cipher_message) ==
    LET alphabet == letters(self.marker)
        clear_message ==
            substitute(cipher_message.cipher, self.shifted_alphabet, alphabet)
    IN  IF clear_message.panic # "none"
        THEN [panic |-> clear_message.panic]
        ELSE [panic |-> "none",
              value |-> [marker |-> self.marker, message |-> clear_message.value]]

\* Variant of same_alphabet for an engine whose methods take a text of any
\* alphabet.
any_alphabet(self, text) == self.marker \in Alphabet /\ text.marker \in Alphabet

\* The type parameter shared by CaesarEngine<A> and the ClearText<A> or
\* CipherText<A> its methods take: a call type-checks only when the two
\* markers name the same alphabet.
same_alphabet(self, text) == self.marker = text.marker

\* ------------------------------------------------------------------- inputs
InputChars == {"a", "z", "E", "#"}

RECURSIVE StringsUpTo(_)
StringsUpTo(k) ==
    IF k = 0
    THEN {<<>>}
    ELSE LET shorter == StringsUpTo(k - 1)
         IN  shorter \cup {Append(s, c) : s \in shorter, c \in InputChars}

TestTexts ==
    { <<"a", "b", "c", "d">>,
      <<"h", "e", "l", "l", "o", "w", "o", "r", "l", "d">>,
      <<"h", "e", "l", "l", "o", " ", "w", "o", "r", "l", "d">>,
      <<"m", "E", "s", "s", "a", "g", "e">>,
      <<"A", "v", "e", " ", "I", "m", "p", "e", "r", "a", "t", "o", "r", ",", " ",
        "m", "o", "r", "i", "t", "u", "r", "i", " ", "t", "e", " ", "s", "a", "l",
        "u", "t", "a", "n", "t">>,
      <<"C", "o", "n", "c", "r", "e", "t", "e", " ", "i", "s", " ", "b", "a", "s", "e",
        "d", " ", "o", "n", " ", "t", "h", "e", " ", "L", "e", "a", "r", "n", "i", "n",
        "g", " ", "W", "i", "t", "h", " ", "E", "r", "r", "o", "r", "s", " ", "(", "L",
        "W", "E", ")", " ", "a", "n", "d", " ", "t", "h", "e", " ", "R", "i", "n", "g",
        " ", "L", "e", "a", "r", "n", "i", "n", "g", " ", "W", "i", "t", "h", " ", "E",
        "r", "r", "o", "r", "s", " ", "(", "R", "L", "W", "E", ")", " ", "p", "r", "o",
        "b", "l", "e", "m", "s", ",", "w", "h", "i", "c", "h", " ", "a", "r", "e", " ",
        "w", "e", "l", "l", " ", "s", "t", "u", "d", "i", "e", "d", " ", "c", "r", "y",
        "p", "t", "o", "g", "r", "a", "p", "h", "i", "c", " ", "h", "a", "r", "d", "n",
        "e", "s", "s", " ", "a", "s", "s", "u", "m", "p", "t", "i", "o", "n", "s", " ",
        "b", "e", "l", "i", "e", "v", "e", "d", " ", "t", "o", " ", "b", "e", " ", "s",
        "e", "c", "u", "r", "e", " ", "e", "v", "e", "n", " ", "a", "g", "a", "i", "n",
        "s", "t", " ", "q", "u", "a", "n", "t", "u", "m", " ", "c", "o", "m", "p", "u",
        "t", "e", "r", "s", ".">> }

Texts == StringsUpTo(MaxLen) \cup TestTexts

TestShifts == {3, 17}

Shifts(A) ==
    LET n == Len(letters(A))
    IN  (0..MaxShift) \cup TestShifts \cup ((n - 1)..(n + MaxOver))

\* -------------------------------------------------------------------- state
VARIABLES
    engine,     \* Option: the CaesarEngine the caller holds
    clear,      \* Option: the ClearText the caller holds
    cipher,     \* Option: the CipherText the caller holds
    result,     \* Option: what the call of try_new returned (Ok or Err)
    input,      \* history: the alphabet and raw text try_new was called with
    panic,      \* "none", or the site of the panic that ended the program
    shift,      \* history: the Shift the held engine was built with
    origin,     \* history: the ClearText and Shift the held cipher came from
    last,       \* history: the last call and its arguments
    engines     \* history: number of calls of new

vars == <<engine, clear, cipher, result, input, panic, shift, origin, last, engines>>

Init ==
    /\ engine = None
    /\ clear = None
    /\ cipher = None
    /\ result = None
    /\ input = None
    /\ panic = "none"
    /\ shift = None
    /\ origin = None
    /\ last = [op |-> "init"]
    /\ engines = 0

\* A panic ends the program: no call follows it.
CanCall == panic = "none"

\* let engine = CaesarEngine::<A>::new(Shift(s));
New(A, s) ==
    /\ CanCall
    /\ engines < MaxEngines
    /\ engines' = engines + 1
    /\ last' = [op |-> "new", marker |-> A, shift |-> s]
    /\ LET r == new(A, s)
       IN  /\ panic' = r.panic
           /\ IF r.panic = "none"
              THEN engine' = Some(r.value) /\ shift' = Some(s)
              ELSE UNCHANGED <<engine, shift>>
    /\ UNCHANGED <<clear, cipher, result, input, origin>>

\* let result = ClearText::<A>::try_new(text); and, when it is Ok, unwrap.
\* A behaviour validates one raw text.
TryNew(A, text) ==
    /\ CanCall
    /\ input = None
    /\ input' = Some([marker |-> A, message |-> text])
    /\ last' = [op |-> "try_new"]
    /\ LET r == try_new(A, text)
       IN  /\ panic' = r.panic
           /\ IF r.panic # "none"
              THEN UNCHANGED <<result, clear>>
              ELSE IF r.ok
              THEN result' = Some([ok |-> TRUE, value |-> r.value])
                   /\ clear' = Some(r.value)
              ELSE result' = Some([ok |-> FALSE, err |-> r.err])
                   /\ UNCHANGED clear
    /\ UNCHANGED <<engine, cipher, shift, origin, engines>>

\* let cipher = engine.encrypt(&clear);
Encrypt ==
    /\ CanCall
    /\ engine.some /\ clear.some
    /\ same_alphabet(engine.value, clear.value)
    /\ last' = [op |-> "encrypt", self |-> engine.value, text |-> clear.value]
    /\ LET r == encrypt(engine.value, clear.value)
       IN  /\ panic' = r.panic
           /\ IF r.panic = "none"
              THEN /\ cipher' = Some(r.value)
                   /\ origin' = Some([clear |-> clear.value, shift |-> shift.value])
              ELSE UNCHANGED <<cipher, origin>>
    /\ UNCHANGED <<engine, clear, result, input, shift, engines>>

\* let clear = engine.decrypt(&cipher);
Decrypt ==
    /\ CanCall
    /\ engine.some /\ cipher.some
    /\ same_alphabet(engine.value, cipher.value)
    /\ last' = [op |-> "decrypt", self |-> engine.value, text |-> cipher.value]
    /\ LET r == decrypt(engine.value, cipher.value)
       IN  /\ panic' = r.panic
           /\ IF r.panic = "none"
              THEN clear' = Some(r.value)
              ELSE UNCHANGED clear
    /\ UNCHANGED <<engine, cipher, result, input, shift, origin, engines>>

\* engine.encrypt(&clear) or engine.decrypt(&cipher) written with a text of
\* another alphabet than the engine's: the call does not type-check, no
\* code runs and no value is produced.
Rejected ==
    /\ CanCall
    /\ engine.some
    /\ \E text \in {clear, cipher} :
          /\ text.some
          /\ ~same_alphabet(engine.value, text.value)
          /\ last' = [op |-> "rejected", self |-> engine.value, text |-> text.value]
    /\ UNCHANGED <<engine, clear, cipher, result, input, panic, shift, origin, engines>>

Next ==
    \/ \E A \in Alphabet : \E s \in Shifts(A) : New(A, s)
    \/ \E A \in Alphabet : \E text \in Texts : TryNew(A, text)
    \/ Encrypt
    \/ Decrypt
    \/ Rejected

Spec == Init /\ [][Next]_vars

\* --------------------------------------------------------------- properties
Range(s) == {s[i] : i \in 1..Len(s)}

\* Zero-based indexes of the chars of text that are not letters of A.
NotLetters(A, text) == {i \in 0..(Len(text) - 1) : text[i + 1] \notin Range(letters(A))}

Least(S) == CHOOSE i \in S : \A j \in S : i <= j

\* The letter of alphabet a that lies k places after letter c, wrapping
\* around the end of a.
Shifted(a, c, k) ==
    LET p == CHOOSE q \in 0..(Len(a) - 1) : a[q + 1] = c
    IN  a[((p + k) % Len(a)) + 1]

abcd == <<"a", "b", "c", "d">>
defg == <<"d", "e", "f", "g">>
helloworld == <<"h", "e", "l", "l", "o", "w", "o", "r", "l", "d">>
khoorzruog == <<"k", "h", "o", "o", "r", "z", "r", "u", "o", "g">>
hello_world == <<"h", "e", "l", "l", "o", " ", "w", "o", "r", "l", "d">>
mEssage == <<"m", "E", "s", "s", "a", "g", "e">>

\* The held clear text is what decrypt made of a cipher that the held
\* engine's own configuration produced.
RoundTripDone ==
    /\ last.op = "decrypt"
    /\ panic = "none"
    /\ origin.value.shift = shift.value

\* C1: round trip.  For every alphabet, every shift s >= 0 and every valid
\* text t: the engine for s is built, and decrypting what it encrypted from
\* t gives a ClearText equal to t.
C1_RoundTripEveryShift ==
    /\ last.op = "new" => panic = "none"
    /\ RoundTripDone => clear.value = origin.value.clear

\* C2: construction never fails and coerces the shift modulo the alphabet
\* length: new(Shift(s)) returns, with the shifted alphabet of
\* new(Shift(s mod n)).
C2_NewCoercesShift ==
    last.op = "new" =>
        /\ panic = "none"
        /\ LET n == Len(letters(last.marker))
           IN  engine.value.shifted_alphabet
                   = [i \in 1..n |-> letters(last.marker)[((i - 1 + (last.shift % n)) % n) + 1]]

\* C3: try_new fails exactly when the text holds a char outside the
\* alphabet, and then reports the leftmost such char.
C3_FirstOffendingChar ==
    input.some =>
        LET A == input.value.marker
            text == input.value.message
            bad == NotLetters(A, text)
        IN  /\ result.some
            /\ result.value.ok <=> bad = {}
            /\ bad # {} => result.value.err = text[Least(bad) + 1]
            /\ (A = "AsciiLowerCaseAlphabet" /\ text = hello_world)
                   => result.value = [ok |-> FALSE, err |-> " "]
            /\ (A = "AsciiLowerCaseAlphabet" /\ text = mEssage)
                   => result.value = [ok |-> FALSE, err |-> "E"]

\* try_new failed on a text with two different chars outside the alphabet.
C3_Witness ==
    /\ input.some /\ result.some
    /\ ~result.value.ok
    /\ \E i, j \in NotLetters(input.value.marker, input.value.message) :
          /\ i < j
          /\ input.value.message[i + 1] # input.value.message[j + 1]

\* C4: every ClearText holds only letters of its alphabet, whether try_new
\* or decrypt made it, and an Ok of try_new wraps exactly the text given.
C4_ValidatedText ==
    /\ clear.some =>
          \A i \in 1..Len(clear.value.message) :
              clear.value.message[i] \in Range(letters(clear.value.marker))
    /\ (result.some /\ result.value.ok) => result.value.value = input.value

\* decrypt returned a non-empty ClearText that differs from the one try_new
\* returned.
C4_Witness ==
    /\ last.op = "decrypt" /\ panic = "none"
    /\ result.some /\ result.value.ok
    /\ clear.value.message # <<>>
    /\ clear.value # result.value.value

\* C5: encrypt keeps the number of chars and replaces the letter of
\* position p by the letter of position (p + s) mod n of the alphabet,
\* which is the letter of position p of the shifted alphabet.
C5_EncryptPositional ==
    (last.op = "encrypt" /\ panic = "none") =>
        LET a == letters(last.self.marker)
            t == last.text.message
            c == cipher.value.cipher
        IN  /\ Len(c) = Len(t)
            /\ \A i \in 1..Len(t) :
                  /\ c[i] = Shifted(a, t[i], shift.value)
                  /\ \E p \in 0..(Len(a) - 1) :
                        a[p + 1] = t[i] /\ c[i] = last.self.shifted_alphabet[p + 1]
            /\ cipher.value.marker = last.text.marker
            /\ (last.self.marker = "AsciiLowerCaseAlphabet" /\ shift.value = 3 /\ t = abcd)
                   => c = defg
            /\ (last.self.marker = "AsciiLowerCaseAlphabet" /\ shift.value = 3
                    /\ t = helloworld) => c = khoorzruog

\* "helloworld" was encrypted with shift 3.
C5_Witness ==
    /\ last.op = "encrypt" /\ panic = "none"
    /\ shift.value = 3
    /\ last.text.message = helloworld

\* C6: with shift 0 the cipher text has the string of the clear text.
C6_ShiftZeroIdentity ==
    (last.op = "encrypt" /\ panic = "none" /\ shift.value = 0) =>
        cipher.value.cipher = last.text.message

\* A non-empty text was encrypted with shift 0.
C6_Witness ==
    /\ last.op = "encrypt" /\ panic = "none"
    /\ shift.value = 0
    /\ Len(last.text.message) > 1

\* C7: an engine built with the alphabet's length as shift holds the
\* alphabet in its original order, and its encrypt is the identity.
C7_ShiftLengthIdentity ==
    (engine.some /\ shift.value = Len(letters(engine.value.marker))) =>
        /\ engine.value.shifted_alphabet = letters(engine.value.marker)
        /\ (last.op = "encrypt" /\ panic = "none")
               => cipher.value.cipher = last.text.message

\* A text was encrypted with the lowercase alphabet and shift 26.
C7_Witness ==
    /\ last.op = "encrypt" /\ panic = "none"
    /\ engine.value.marker = "AsciiLowerCaseAlphabet"
    /\ shift.value = Len(CAESAR_ALPHABET)
    /\ last.text.message = helloworld

\* C8: a text of one alphabet never reaches encrypt or decrypt of an engine
\* of another alphabet: such a call is rejected and produces no text, and
\* every text produced carries the alphabet of the engine and of the text
\* it was made from.
C8_Inv ==
    /\ last.op \in {"encrypt", "decrypt"} => last.self.marker = last.text.marker
    /\ cipher.some => cipher.value.marker = origin.value.clear.marker
    /\ (clear.some /\ result.some /\ result.value.ok)
           => clear.value.marker = result.value.value.marker

C8_NoCrossAlphabet ==
    /\ []C8_Inv
    /\ [][last'.op = "rejected" => (clear' = clear /\ cipher' = cipher /\ panic' = panic)]_vars

\* A call with an engine of one alphabet and a text of the other was
\* rejected.
C8_Witness ==
    /\ last.op = "rejected"
    /\ last.self.marker # last.text.marker
    /\ last.text.message # <<>>

\* C9: the shifted alphabet of an engine has the alphabet's length, holds
\* each of its letters once and is its left rotation by the shift;
\* encrypt and decrypt leave it alone.
C9_Inv ==
    engine.some =>
        LET a == letters(engine.value.marker)
            n == Len(a)
            sa == engine.value.shifted_alphabet
        IN  /\ Len(sa) = n
            /\ \A c \in Range(a) : Cardinality({i \in 1..n : sa[i] = c}) = 1
            /\ \A i \in 0..(n - 1) : sa[i + 1] = a[((i + shift.value) % n) + 1]
            /\ shift.value <= n
               => sa = SubSeq(a, shift.value + 1, n) \o SubSeq(a, 1, shift.value)

C9_ShiftedAlphabet ==
    /\ []C9_Inv
    /\ [][last'.op \in {"encrypt", "decrypt"} => engine' = engine]_vars

\* An engine with shift 1 (b, c, d, ... a) has encrypted and decrypted.
C9_Witness ==
    /\ last.op = "decrypt" /\ panic = "none"
    /\ shift.value = 1
    /\ SubSeq(engine.value.shifted_alphabet, 1, 3) = <<"b", "c", "d">>
    /\ engine.value.shifted_alphabet[Len(engine.value.shifted_alphabet)] = "a"

\* C10: no lookup fails in encrypt or decrypt: neither the unwrap of the
\* position nor the indexing panics, whatever engine of the same alphabet
\* made the cipher text and whether try_new or decrypt made the clear text.
C10_LookupsNeverFail ==
    /\ panic \notin {"unwrap", "index"}
    /\ last.op \in {"encrypt", "decrypt"} => panic = "none"

\* encrypt ran on a ClearText that decrypt made from a cipher text of an
\* engine with another shift.
C10_Witness ==
    /\ last.op = "encrypt" /\ panic = "none"
    /\ result.some /\ result.value.ok
    /\ last.text # result.value.value
    /\ last.text.message # <<>>

====
